---- MODULE Spec2Model ----
(***************************************************************************)
(* Model of secure-backend/app.py: a FastAPI application with two routes,  *)
(* GET /health and POST /process, the latter guarded by the HTTPBearer     *)
(* security scheme and the verify_token dependency, behind Starlette's     *)
(* CORSMiddleware.  A request travels through the stages the framework     *)
(* runs for its route; several requests may be in flight at once.          *)
(*                                                                         *)
(* Header values are sequences of one-character strings; body text is a    *)
(* sequence of Unicode code points.                                        *)
(***************************************************************************)
EXTENDS Integers, Sequences, FiniteSets, TLC

VARIABLES
    workload,   \* which family of requests the clients send in this run
    build,      \* the installed framework versions (app.py pins none)
    pc,         \* per worker: the stage its request is at
    req,        \* per worker: the request being served
    creds,      \* per worker: HTTPAuthorizationCredentials from security
    auth,       \* per worker: the value verify_token returned
    data,       \* per worker: the validated UserData
    resp,       \* per worker: the response under construction / delivered
    executed,   \* per worker: process_data's body ran for this request
    served      \* requests answered so far, with the non-timestamp response

vars == <<workload, build, pc, req, creds, auth, data, resp, executed, served>>

----------------------------------------------------------------------------
(* Bounds *)

\* longest textData the clients send
MaxLen == 2
\* longest firstName / lastName the clients send
MaxNameLen == 1
\* the clock reads 0..MaxTime
MaxTime == 1
\* entries kept in the log of served requests
MaxHist == 2

Workers == {"w1", "w2"}

----------------------------------------------------------------------------
(* Text *)

\* code points the clients use in body text: space, 'a', e-acute (2 bytes in UTF-8)
Chars == {32, 97, 233}

Texts(n) == UNION {[1..k -> Chars] : k \in 0..n}

UpperLetters == <<"A","B","C","D","E","F","G","H","I","J","K","L","M",
                  "N","O","P","Q","R","S","T","U","V","W","X","Y","Z">>
LowerLetters == <<"a","b","c","d","e","f","g","h","i","j","k","l","m",
                  "n","o","p","q","r","s","t","u","v","w","x","y","z">>

\* str.lower() on one character
LowerChar(c) ==
    IF \E i \in 1..Len(UpperLetters) : UpperLetters[i] = c
    THEN LowerLetters[CHOOSE i \in 1..Len(UpperLetters) : UpperLetters[i] = c]
    ELSE c

\* str.lower()
Lower(s) == [i \in 1..Len(s) |-> LowerChar(s[i])]

\* str(n) for a natural number n, as code points
RECURSIVE StrOfNat(_)
StrOfNat(n) ==
    IF n < 10 THEN <<48 + n>> ELSE StrOfNat(n \div 10) \o <<48 + (n % 10)>>

\* bytes of one code point in UTF-8
Utf8Width(c) ==
    IF c < 128 THEN 1 ELSE IF c < 2048 THEN 2 ELSE IF c < 65536 THEN 3 ELSE 4

RECURSIVE Utf8Len(_)
Utf8Len(s) == IF s = <<>> THEN 0 ELSE Utf8Width(Head(s)) + Utf8Len(Tail(s))

\* len() of a Python str: its number of code points
PyLen(s) == Len(s)

----------------------------------------------------------------------------
(* The application's configuration *)

\* the token verify_token compares with: "demo-secure-token"
SECRET == <<"d","e","m","o","-","s","e","c","u","r","e","-","t","o","k","e","n">>

\* CORSMiddleware(allow_origins=[...])
allow_origins == {"https://frontend-webapp-container.azurewebsites.net",
                  "https://*.azurewebsites.net"}

\* CORSMiddleware(allow_credentials=True)
allow_credentials == TRUE

\* class UserData(BaseModel): three fields annotated str
UserDataFields == {"firstName", "lastName", "textData"}

\* The framework versions the application may be installed with: before
\* FastAPI 0.122 HTTPBearer rejects with 403, from then on with 401;
\* pydantic 1 coerces a JSON number given for a str field, pydantic 2 rejects it.
Builds == [bearer401 : BOOLEAN, pydantic : {1, 2}]

----------------------------------------------------------------------------
(* Requests *)

NoOrigin == "None"

Hdr(v) == [present |-> TRUE, value |-> v]
NoHeader == [present |-> FALSE, value |-> <<>>]

BEARER == <<"B","e","a","r","e","r">>
SP == <<" ">>

\* Authorization: Bearer demo-secure-token
HdrGood == Hdr(BEARER \o SP \o SECRET)
\* Authorization: bearer demo-secure-token
HdrGoodLowerScheme == Hdr(Lower(BEARER) \o SP \o SECRET)
\* Authorization: Bearer Demo-Secure-Token
HdrCase == Hdr(BEARER \o SP \o <<"D","e","m","o","-","S","e","c","u","r","e","-","T","o","k","e","n">>)
\* Authorization: Bearer demo-secure-tokenX
HdrSuffix == Hdr(BEARER \o SP \o SECRET \o <<"X">>)
\* Authorization: Bearer 'demo-secure-token'   (quoted)
HdrQuoted == Hdr(BEARER \o SP \o <<"'">> \o SECRET \o <<"'">>)
\* Authorization: Bearer abc
HdrWrong == Hdr(BEARER \o SP \o <<"a","b","c">>)
\* Authorization: Bearer            (scheme, no credential)
HdrNoCredential == Hdr(BEARER)
\* Authorization: Basic xyz
HdrBasic == Hdr(<<"B","a","s","i","c">> \o SP \o <<"x","y","z">>)
\* Authorization: Token demo-secure-token   (the secret under another scheme)
HdrOtherScheme == Hdr(<<"T","o","k","e","n">> \o SP \o SECRET)
\* Authorization: demo-secure-token         (no scheme)
HdrBareSecret == Hdr(SECRET)

GoodHeaders == {HdrGood, HdrGoodLowerScheme}
WrongTokenHeaders == {HdrCase, HdrSuffix, HdrQuoted, HdrWrong}
MalformedHeaders == {HdrNoCredential, HdrBasic, HdrOtherScheme, HdrBareSecret}
AuthHeaders == {NoHeader} \cup GoodHeaders \cup WrongTokenHeaders \cup MalformedHeaders

\* JSON values of a body member
Absent == [t |-> "absent", s |-> <<>>, n |-> 0]
Null == [t |-> "null", s |-> <<>>, n |-> 0]
Num(k) == [t |-> "num", s |-> <<>>, n |-> k]
Str(x) == [t |-> "str", s |-> x, n |-> 0]

NoMembers == [firstName |-> Absent, lastName |-> Absent, textData |-> Absent]

\* a JSON object with the given members
Obj(f, l, t) == [kind |-> "object", members |-> [firstName |-> f, lastName |-> l, textData |-> t]]
\* no body at all
EmptyBody == [kind |-> "empty", members |-> NoMembers]
\* bytes that are not JSON
MalformedBody == [kind |-> "malformed", members |-> NoMembers]
\* JSON that is not an object, e.g. []
ArrayBody == [kind |-> "array", members |-> NoMembers]

A == <<97>>

ValidBodies == {Obj(Str(A), Str(A), Str(A)), Obj(Str(<<>>), Str(<<32>>), Str(<<233, 97>>))}

\* bodies lacking a field, or giving null for one
LackingBodies ==
    {Obj(Absent, Str(A), Str(A)), Obj(Str(A), Absent, Str(A)), Obj(Str(A), Str(A), Absent),
     Obj(Absent, Absent, Absent), Obj(Str(A), Null, Str(A)), EmptyBody}

\* bodies giving a JSON number for a field
NumberBodies == {Obj(Str(A), Str(A), Num(7)), Obj(Num(42), Str(A), Str(A))}

AuthBodies == ValidBodies \cup LackingBodies \cup NumberBodies \cup {ArrayBody, MalformedBody}

Origins == {NoOrigin,
            "https://frontend-webapp-container.azurewebsites.net",
            "https://foo.azurewebsites.net",
            "https://*.azurewebsites.net",
            "https://evil.example.com"}

Request(p, a, b, o) == [path |-> p, auth |-> a, body |-> b, origin |-> o]

\* what a worker with no request holds
NoRequest == Request("none", NoHeader, EmptyBody, NoOrigin)

\* the requests of each workload
Requests(wl) ==
    CASE wl = "conc" ->
           {Request("health", a, EmptyBody, NoOrigin) : a \in {NoHeader, HdrGood}}
           \cup {Request("process", a, b, NoOrigin) :
                   a \in {NoHeader, HdrWrong, HdrGood},
                   b \in {Obj(Str(A), Str(A), Str(A)), Obj(Str(A), Str(A), Absent)}}
      [] wl = "auth" ->
           {Request("health", a, EmptyBody, o) : a \in AuthHeaders, o \in Origins}
           \cup {Request("process", a, b, o) :
                   a \in AuthHeaders, b \in AuthBodies, o \in Origins}
      [] wl = "data" ->
           {Request("health", NoHeader, EmptyBody, NoOrigin)}
           \cup {Request("process", a, Obj(Str(f), Str(l), Str(t)), NoOrigin) :
                   a \in {HdrGood, HdrWrong},
                   f \in Texts(MaxNameLen), l \in Texts(MaxNameLen), t \in Texts(MaxLen)}

----------------------------------------------------------------------------
(* Responses *)

NoCreds == [scheme |-> <<>>, credentials |-> <<>>]
NoAuth == [authenticated |-> FALSE, user |-> ""]
NoData == [firstName |-> <<>>, lastName |-> <<>>, textData |-> <<>>]

NoResp ==
    [kind |-> "none", status |-> 0, detail |-> "", errors |-> {},
     hstatus |-> "", service |-> "", message |-> <<>>, authenticated |-> FALSE,
     data_length |-> 0, timestamp |-> 0, processed_at |-> 0,
     acao |-> "", acac |-> FALSE]

\* HTTPException(status_code, detail) as the JSON error response it becomes
HTTPException(status_code, detail) ==
    [NoResp EXCEPT !.kind = "error", !.status = status_code, !.detail = detail]

\* RequestValidationError(errors) as the 422 response it becomes
RequestValidationError(errors) ==
    [NoResp EXCEPT !.kind = "error", !.status = 422, !.detail = "validation",
                   !.errors = errors]

\* a response without its timestamps
NoTimestamps(r) == [r EXCEPT !.timestamp = 0, !.processed_at = 0]

----------------------------------------------------------------------------
(* security = HTTPBearer() *)

\* index of the first space of s, 0 if none
FirstSpace(s) ==
    IF \E i \in 1..Len(s) : s[i] = " "
    THEN CHOOSE i \in 1..Len(s) : s[i] = " " /\ \A j \in 1..(i - 1) : s[j] # " "
    ELSE 0

\* fastapi.security.utils.get_authorization_scheme_param: partition(" ")
get_authorization_scheme_param(h) ==
    IF ~h.present \/ h.value = <<>>
    THEN [scheme |-> <<>>, credentials |-> <<>>]
    ELSE IF FirstSpace(h.value) = 0
         THEN [scheme |-> h.value, credentials |-> <<>>]
         ELSE [scheme |-> SubSeq(h.value, 1, FirstSpace(h.value) - 1),
               credentials |-> SubSeq(h.value, FirstSpace(h.value) + 1, Len(h.value))]

\* an HTTPBearer that hands whatever it parsed to the dependant
HTTPBearerPassesEverything(h, b) ==
    [ok |-> TRUE, creds |-> get_authorization_scheme_param(h), error |-> NoResp]

\* HTTPBearer.__call__ with auto_error=True: the credentials, or the error raised
HTTPBearer(h, b) ==
    LET sp == get_authorization_scheme_param(h) IN
    IF ~(h.present /\ h.value # <<>> /\ sp.scheme # <<>> /\ sp.credentials # <<>>)
    THEN [ok |-> FALSE, creds |-> NoCreds,
          error |-> HTTPException(IF b.bearer401 THEN 401 ELSE 403, "Not authenticated")]
    ELSE IF Lower(sp.scheme) # Lower(BEARER)
    THEN [ok |-> FALSE, creds |-> NoCreds,
          error |-> IF b.bearer401
                    THEN HTTPException(401, "Not authenticated")
                    ELSE HTTPException(403, "Invalid authentication credentials")]
    ELSE [ok |-> TRUE, creds |-> sp, error |-> NoResp]

----------------------------------------------------------------------------
(* verify_token *)

\* a verify_token that accepts any credential beginning with the secret
verify_token_startswith(credentials) ==
    IF Len(credentials.credentials) >= Len(SECRET)
       /\ SubSeq(credentials.credentials, 1, Len(SECRET)) = SECRET
    THEN [ok |-> TRUE, ctx |-> [authenticated |-> TRUE, user |-> "demo-user"], error |-> NoResp]
    ELSE [ok |-> FALSE, ctx |-> NoAuth, error |-> HTTPException(401, "Invalid token")]

\* a verify_token that compares without regard to case
verify_token_ignoring_case(credentials) ==
    IF Lower(credentials.credentials) = Lower(SECRET)
    THEN [ok |-> TRUE, ctx |-> [authenticated |-> TRUE, user |-> "demo-user"], error |-> NoResp]
    ELSE [ok |-> FALSE, ctx |-> NoAuth, error |-> HTTPException(401, "Invalid token")]

\* a verify_token that remembers an earlier successful authentication
verify_token_sticky(credentials) ==
    IF credentials.credentials = SECRET \/ \E e \in served : e.resp.kind = "process"
    THEN [ok |-> TRUE, ctx |-> [authenticated |-> TRUE, user |-> "demo-user"], error |-> NoResp]
    ELSE [ok |-> FALSE, ctx |-> NoAuth, error |-> HTTPException(401, "Invalid token")]

verify_token(credentials) ==
    IF credentials.credentials = SECRET
    THEN [ok |-> TRUE, ctx |-> [authenticated |-> TRUE, user |-> "demo-user"], error |-> NoResp]
    ELSE [ok |-> FALSE, ctx |-> NoAuth, error |-> HTTPException(401, "Invalid token")]

----------------------------------------------------------------------------
(* class UserData(BaseModel) *)

\* validation of one member against the annotation str
ValidateStr(v, pydantic) ==
    CASE v.t = "str" -> [ok |-> TRUE, value |-> v.s]
      [] v.t = "num" -> IF pydantic = 1
                        THEN [ok |-> TRUE, value |-> StrOfNat(v.n)]
                        ELSE [ok |-> FALSE, value |-> <<>>]
      [] OTHER -> [ok |-> FALSE, value |-> <<>>]

\* a UserData whose missing members default to the empty string
ValidateUserDataDefaulting(body, pydantic) ==
    [ok |-> TRUE, errors |-> {},
     value |-> [f \in UserDataFields |-> ValidateStr(body.members[f], pydantic).value]]

\* the body parameter data: UserData, validated from the decoded JSON body
ValidateUserData(body, pydantic) ==
    IF body.kind # "object"
    THEN [ok |-> FALSE, errors |-> {"body"}, value |-> NoData]
    ELSE LET bad == {f \in UserDataFields : ~ValidateStr(body.members[f], pydantic).ok} IN
         IF bad # {}
         THEN [ok |-> FALSE, errors |-> bad, value |-> NoData]
         ELSE [ok |-> TRUE, errors |-> {},
               value |-> [f \in UserDataFields |-> ValidateStr(body.members[f], pydantic).value]]

----------------------------------------------------------------------------
(* The route handlers *)

Lit(x) == [lit |-> x, field |-> ""]
Field(f) == [lit |-> <<>>, field |-> f]

\* f"Hello {data.firstName} {data.lastName}. Received: {data.textData}"
MessageTemplate ==
    << Lit(<<72, 101, 108, 108, 111, 32>>),                                \* "Hello "
       Field("firstName"),
       Lit(<<32>>),                                                        \* " "
       Field("lastName"),
       Lit(<<46, 32, 82, 101, 99, 101, 105, 118, 101, 100, 58, 32>>),      \* ". Received: "
       Field("textData") >>

\* str.strip() of spaces
RECURSIVE Strip(_)
Strip(s) ==
    IF s = <<>> THEN s
    ELSE IF Head(s) = 32 THEN Strip(Tail(s))
    ELSE IF s[Len(s)] = 32 THEN Strip(SubSeq(s, 1, Len(s) - 1))
    ELSE s

\* an f-string that strips the values it interpolates
RECURSIVE FStringStripping(_, _)
FStringStripping(tpl, d) ==
    IF tpl = <<>> THEN <<>>
    ELSE (IF Head(tpl).field = "" THEN Head(tpl).lit ELSE Strip(d[Head(tpl).field]))
         \o FStringStripping(Tail(tpl), d)

\* evaluation of an f-string: literal parts and interpolated str values, in order
RECURSIVE FString(_, _)
FString(tpl, d) ==
    IF tpl = <<>> THEN <<>>
    ELSE (IF Head(tpl).field = "" THEN Head(tpl).lit ELSE d[Head(tpl).field])
         \o FString(Tail(tpl), d)

\* a data_length that counts encoded bytes
DataLengthInBytes(d) == Utf8Len(d.textData)

\* len(data.textData)
DataLength(d) == PyLen(d.textData)

\* async def health_check()
health_check(now) ==
    [NoResp EXCEPT !.kind = "health", !.status = 200, !.hstatus = "healthy",
                   !.timestamp = now, !.service = "secure-backend-aks"]

\* async def process_data(data: UserData, auth=Depends(verify_token))
process_data(d, a, now1, now2) ==
    [NoResp EXCEPT !.kind = "process", !.status = 200,
                   !.message = FString(MessageTemplate, d),
                   !.timestamp = now1, !.authenticated = TRUE,
                   !.service = "Private AKS Backend",
                   !.data_length = DataLength(d), !.processed_at = now2]

----------------------------------------------------------------------------
(* CORSMiddleware *)

\* CORSMiddleware.__init__: allow_all_origins = "*" in allow_origins
allow_all_origins == "*" \in allow_origins

\* CORSMiddleware.is_allowed_origin (no allow_origin_regex is configured)
is_allowed_origin(origin) == allow_all_origins \/ origin \in allow_origins

\* CORSMiddleware.simple_response / send: the headers added to a response
CorsHeaders(origin, r) ==
    IF origin = NoOrigin THEN r
    ELSE [r EXCEPT !.acac = allow_credentials,
                   !.acao = IF allow_all_origins THEN "*"
                            ELSE IF is_allowed_origin(origin) THEN origin ELSE ""]

----------------------------------------------------------------------------
(* Dispatch of a request through its route *)

\* the route declares a body parameter (data: UserData)
HasBodyParam(path) == path = "process"

\* every route declaring the dependency
AllRoutesDependOnVerifyToken(path) == TRUE

\* the route declares auth=Depends(verify_token)
DependsOnVerifyToken(path) == path = "process"

\* a dispatch that validates the body before it solves the dependencies
PipelineValidatingFirst == <<"body", "validate", "security", "verify", "handler">>

\* the order in which FastAPI's request handler works: decode the body, solve the
\* dependencies (security, then verify_token), validate the body, call the endpoint
Pipeline == <<"body", "security", "verify", "validate", "handler">>

Applies(stage, path) ==
    CASE stage \in {"body", "validate"} -> HasBodyParam(path)
      [] stage \in {"security", "verify"} -> DependsOnVerifyToken(path)
      [] OTHER -> TRUE

StageIndex(stage) ==
    IF \E i \in 1..Len(Pipeline) : Pipeline[i] = stage
    THEN CHOOSE i \in 1..Len(Pipeline) : Pipeline[i] = stage
    ELSE 0

\* the stage that follows `stage` for a request to `path`; "send" after the last
After(stage, path) ==
    LET later == {i \in (StageIndex(stage) + 1)..Len(Pipeline) : Applies(Pipeline[i], path)} IN
    IF later = {} THEN "send"
    ELSE Pipeline[CHOOSE i \in later : \A j \in later : i <= j]

----------------------------------------------------------------------------
(* State machine *)

WorkersOf(wl) == IF wl = "conc" THEN Workers ELSE {"w1"}

InitFor(wl) ==
    /\ workload = wl
    /\ build \in Builds
    /\ pc = [w \in WorkersOf(wl) |-> "idle"]
    /\ req = [w \in WorkersOf(wl) |-> NoRequest]
    /\ creds = [w \in WorkersOf(wl) |-> NoCreds]
    /\ auth = [w \in WorkersOf(wl) |-> NoAuth]
    /\ data = [w \in WorkersOf(wl) |-> NoData]
    /\ resp = [w \in WorkersOf(wl) |-> NoResp]
    /\ executed = [w \in WorkersOf(wl) |-> FALSE]
    /\ served = {}

\* concurrent clients, a small family of requests, the log of served requests kept
Init == InitFor("conc")
\* one client sending every Authorization header, body and Origin of the model
InitAuth == InitFor("auth")
\* one client sending every UserData up to the length bounds
InitData == InitFor("data")

\* the response is ready: the remaining work is the middleware's
Fail(w, error) ==
    /\ resp' = [resp EXCEPT ![w] = error]
    /\ pc' = [pc EXCEPT ![w] = "send"]

\* a request arrives and is routed
Receive(w) ==
    /\ pc[w] = "idle"
    /\ \E r \in Requests(workload) :
         /\ req' = [req EXCEPT ![w] = r]
         /\ pc' = [pc EXCEPT ![w] = After("start", r.path)]
    /\ UNCHANGED <<workload, build, creds, auth, data, resp, executed, served>>

\* the request handler reads the body and decodes it as JSON
ReadBody(w) ==
    /\ pc[w] = "body"
    /\ IF req[w].body.kind = "malformed"
       THEN Fail(w, RequestValidationError({"body"}))
       ELSE /\ pc' = [pc EXCEPT ![w] = After("body", req[w].path)]
            /\ UNCHANGED resp
    /\ UNCHANGED <<workload, build, req, creds, auth, data, executed, served>>

\* Depends(security): HTTPBearer extracts the credentials
Security(w) ==
    /\ pc[w] = "security"
    /\ LET r == HTTPBearer(req[w].auth, build) IN
       IF r.ok
       THEN /\ creds' = [creds EXCEPT ![w] = r.creds]
            /\ pc' = [pc EXCEPT ![w] = After("security", req[w].path)]
            /\ UNCHANGED resp
       ELSE /\ Fail(w, r.error)
            /\ UNCHANGED creds
    /\ UNCHANGED <<workload, build, req, auth, data, executed, served>>

\* Depends(verify_token)
VerifyToken(w) ==
    /\ pc[w] = "verify"
    /\ LET r == verify_token(creds[w]) IN
       IF r.ok
       THEN /\ auth' = [auth EXCEPT ![w] = r.ctx]
            /\ pc' = [pc EXCEPT ![w] = After("verify", req[w].path)]
            /\ UNCHANGED resp
       ELSE /\ Fail(w, r.error)
            /\ UNCHANGED auth
    /\ UNCHANGED <<workload, build, req, creds, data, executed, served>>

\* the body parameter is validated as UserData
ValidateBody(w) ==
    /\ pc[w] = "validate"
    /\ LET r == ValidateUserData(req[w].body, build.pydantic) IN
       IF r.ok
       THEN /\ data' = [data EXCEPT ![w] = r.value]
            /\ pc' = [pc EXCEPT ![w] = After("validate", req[w].path)]
            /\ UNCHANGED resp
       ELSE /\ Fail(w, RequestValidationError(r.errors))
            /\ UNCHANGED data
    /\ UNCHANGED <<workload, build, req, creds, auth, executed, served>>

\* GET /health
HealthCheck(w) ==
    /\ pc[w] = "handler"
    /\ req[w].path = "health"
    /\ \E now \in 0..MaxTime :
         resp' = [resp EXCEPT ![w] = health_check(now)]
    /\ pc' = [pc EXCEPT ![w] = "send"]
    /\ UNCHANGED <<workload, build, req, creds, auth, data, executed, served>>

\* POST /process
ProcessData(w) ==
    /\ pc[w] = "handler"
    /\ req[w].path = "process"
    /\ \E now1 \in 0..MaxTime : \E now2 \in now1..MaxTime :
         resp' = [resp EXCEPT ![w] = process_data(data[w], auth[w], now1, now2)]
    /\ executed' = [executed EXCEPT ![w] = TRUE]
    /\ pc' = [pc EXCEPT ![w] = "send"]
    /\ UNCHANGED <<workload, build, req, creds, auth, data, served>>

\* CORSMiddleware adds its headers and the response leaves
CorsSend(w) ==
    /\ pc[w] = "send"
    /\ resp' = [resp EXCEPT ![w] = CorsHeaders(req[w].origin, resp[w])]
    /\ pc' = [pc EXCEPT ![w] = "done"]
    /\ served' = IF workload = "conc" /\ Cardinality(served) < MaxHist
                 THEN served \cup {[req |-> req[w], resp |-> NoTimestamps(resp'[w])]}
                 ELSE served
    /\ UNCHANGED <<workload, build, req, creds, auth, data, executed>>

\* the client has its response; everything scoped to the request is discarded
Close(w) ==
    /\ pc[w] = "done"
    /\ pc' = [pc EXCEPT ![w] = "idle"]
    /\ creds' = [creds EXCEPT ![w] = NoCreds]
    /\ auth' = [auth EXCEPT ![w] = NoAuth]
    /\ data' = [data EXCEPT ![w] = NoData]
    /\ resp' = [resp EXCEPT ![w] = NoResp]
    /\ executed' = [executed EXCEPT ![w] = FALSE]
    /\ req' = [req EXCEPT ![w] = NoRequest]
    /\ UNCHANGED <<workload, build, served>>

Next ==
    \/ \E w \in DOMAIN pc : Receive(w)
    \/ \E w \in DOMAIN pc : ReadBody(w)
    \/ \E w \in DOMAIN pc : Security(w)
    \/ \E w \in DOMAIN pc : VerifyToken(w)
    \/ \E w \in DOMAIN pc : ValidateBody(w)
    \/ \E w \in DOMAIN pc : HealthCheck(w)
    \/ \E w \in DOMAIN pc : ProcessData(w)
    \/ \E w \in DOMAIN pc : CorsSend(w)
    \/ \E w \in DOMAIN pc : Close(w)

Spec == Init /\ [][Next]_vars
SpecAuth == InitAuth /\ [][Next]_vars
SpecData == InitData /\ [][Next]_vars

TypeOK ==
    /\ workload \in {"conc", "auth", "data"}
    /\ build \in Builds
    /\ \A w \in DOMAIN pc :
         /\ pc[w] \in {"idle", "body", "security", "verify", "validate", "handler", "send", "done"}
         /\ req[w].path \in {"none", "health", "process"}
         /\ resp[w].status \in {0, 200, 401, 403, 422}
    /\ Cardinality(served) <= MaxHist

----------------------------------------------------------------------------
(* Properties *)

\* worker w has delivered the response to its request
Delivered(w) == pc[w] = "done"

\* worker w has delivered the response to a POST /process request
DeliveredProcess(w) == Delivered(w) /\ req[w].path = "process"

InvalidToken(r) == r.status = 401 /\ r.detail = "Invalid token"

AuthContext == [authenticated |-> TRUE, user |-> "demo-user"]

\* C1, as stated: every POST /process whose bearer credential is not exactly the
\* secret (an empty credential included) is answered 401 "Invalid token",
\* whatever its body.
C1_AsStated ==
    \A w \in DOMAIN pc :
        (DeliveredProcess(w) /\ req[w].auth \in WrongTokenHeaders \cup {HdrNoCredential})
            => InvalidToken(resp[w])

\* C1, amended: every POST /process whose Authorization header has the bearer
\* scheme and a non-empty credential other than the secret (differing in case,
\* with extra characters around it, or simply wrong) is answered 401 "Invalid
\* token" without running the handler, whatever the members of its body, provided
\* the body is absent or decodable JSON.
C1_WrongTokenIs401 ==
    \A w \in DOMAIN pc :
        (DeliveredProcess(w) /\ req[w].auth \in WrongTokenHeaders
                             /\ req[w].body.kind # "malformed")
            => (InvalidToken(resp[w]) /\ ~executed[w] /\ ~auth[w].authenticated)

C1_Witness ==
    \E w \in DOMAIN pc :
        /\ DeliveredProcess(w)
        /\ req[w].auth = HdrCase
        /\ req[w].body \in ValidBodies
        /\ InvalidToken(resp[w])

\* C2, as stated: a POST /process whose Authorization header is absent or
\* malformed fails with 401 and detail "Invalid token" (here for the requests
\* with a valid body).
C2_AsStated ==
    \A w \in DOMAIN pc :
        (DeliveredProcess(w) /\ req[w].auth \in {NoHeader, HdrBasic, HdrNoCredential}
                             /\ req[w].body \in ValidBodies)
            => InvalidToken(resp[w])

\* C2, amended: a POST /process whose Authorization header is absent or malformed
\* (no bearer scheme, or a scheme with no credential), and whose body is absent
\* or decodable JSON, is rejected by the HTTPBearer scheme before verify_token
\* runs: the status is 403 (401 from FastAPI 0.122 on), the detail is "Not
\* authenticated" (or "Invalid authentication credentials" for another scheme
\* on the older FastAPI), never "Invalid token", and the handler does not run.
C2_MissingHeaderIsNotAuthenticated ==
    \A w \in DOMAIN pc :
        (DeliveredProcess(w) /\ req[w].auth \in {NoHeader} \cup MalformedHeaders
                             /\ req[w].body.kind # "malformed")
            => /\ resp[w].status = (IF build.bearer401 THEN 401 ELSE 403)
               /\ resp[w].detail =
                     (IF ~build.bearer401 /\ req[w].auth \in {HdrBasic, HdrOtherScheme}
                      THEN "Invalid authentication credentials"
                      ELSE "Not authenticated")
               /\ ~executed[w]
               /\ ~auth[w].authenticated

C2_Witness ==
    \E w \in DOMAIN pc :
        /\ DeliveredProcess(w)
        /\ req[w].auth = NoHeader
        /\ req[w].body \in ValidBodies
        /\ resp[w].detail = "Not authenticated"

\* C3: every 200 response of POST /process belongs to a request whose bearer
\* credential equals the secret and for which verify_token returned
\* {authenticated: true, user: "demo-user"}; the handler body runs for no other.
C3_ProcessOnlyWhenAuthenticated ==
    \A w \in DOMAIN pc :
        (req[w].path = "process" /\ (resp[w].status = 200 \/ executed[w] \/ pc[w] = "handler"))
            => /\ req[w].auth \in GoodHeaders
               /\ creds[w].credentials = SECRET
               /\ auth[w] = AuthContext

C3_Witness ==
    \E w \in DOMAIN pc :
        /\ DeliveredProcess(w)
        /\ resp[w].kind = "process"
        /\ resp[w].status = 200
        /\ resp[w].authenticated
        /\ creds[w].credentials = SECRET

\* the members of a request body that are missing or null
Lacking(b) ==
    IF b.kind # "object" THEN {"body"}
    ELSE {f \in UserDataFields : b.members[f].t \in {"absent", "null"}}

\* C4, as stated: a POST /process whose body lacks a field is answered 422 with
\* a field-level error, whatever token it carries.
C4_AsStated ==
    \A w \in DOMAIN pc :
        (DeliveredProcess(w) /\ req[w].body \in LackingBodies)
            => (resp[w].status = 422 /\ resp[w].errors # {} /\ ~executed[w])

\* C4, amended: the handler body is never executed for a POST /process whose
\* body lacks one or more of firstName, lastName, textData (or gives null for
\* one); the answer is 422 naming the lacking fields when the request carries
\* the correct token, and the 401/403 of the failed authentication otherwise.
\* A JSON number for a field is rejected with 422 by pydantic 2 and coerced to
\* text by pydantic 1.
C4_LackingFieldIs422WhenAuthenticated ==
    \A w \in DOMAIN pc :
        /\ (DeliveredProcess(w) /\ req[w].body \in LackingBodies)
              => /\ ~executed[w]
                 /\ req[w].auth \in GoodHeaders
                      => (resp[w].status = 422 /\ resp[w].errors = Lacking(req[w].body))
                 /\ req[w].auth \notin GoodHeaders => resp[w].status \in {401, 403}
        /\ (DeliveredProcess(w) /\ req[w].body \in NumberBodies /\ req[w].auth \in GoodHeaders)
              => resp[w].status = (IF build.pydantic = 2 THEN 422 ELSE 200)

C4_Witness ==
    \E w \in DOMAIN pc :
        /\ DeliveredProcess(w)
        /\ req[w].auth = HdrGood
        /\ req[w].body = Obj(Str(A), Str(A), Absent)
        /\ resp[w].status = 422
        /\ resp[w].errors = {"textData"}

\* the text a request gives for a member of its body
Sent(w, f) == req[w].body.members[f].s

\* "Hello " and ". Received: " as code points
HelloText == <<72, 101, 108, 108, 111, 32>>
ReceivedText == <<46, 32, 82, 101, 99, 101, 105, 118, 101, 100, 58, 32>>

\* C5: for every valid UserData sent with the correct token the status is 200
\* and message is "Hello " + firstName + " " + lastName + ". Received: " +
\* textData, the fields exactly as sent.
C5_MessageIsConcatenation ==
    \A w \in DOMAIN pc :
        (DeliveredProcess(w) /\ req[w].auth = HdrGood)
            => /\ resp[w].status = 200
               /\ resp[w].message =
                     HelloText \o Sent(w, "firstName") \o <<32>> \o Sent(w, "lastName")
                               \o ReceivedText \o Sent(w, "textData")

C5_Witness ==
    \E w \in DOMAIN pc :
        /\ DeliveredProcess(w)
        /\ req[w].auth = HdrGood
        /\ Sent(w, "firstName") = <<32>>
        /\ Sent(w, "lastName") = <<>>
        /\ Sent(w, "textData") = <<97, 32>>
        /\ resp[w].message = HelloText \o <<32, 32>> \o ReceivedText \o <<97, 32>>

\* C6: in every 200 response of POST /process data_length is the number of
\* characters of the request's textData (0 for the empty string, characters and
\* not bytes for multi-byte text), whatever firstName and lastName are.
C6_DataLengthIsCharacterCount ==
    \A w \in DOMAIN pc :
        (DeliveredProcess(w) /\ resp[w].status = 200)
            => resp[w].data_length = Len(Sent(w, "textData"))

C6_Witness ==
    \E w \in DOMAIN pc :
        /\ DeliveredProcess(w)
        /\ resp[w].status = 200
        /\ Sent(w, "textData") = <<233, 97>>
        /\ resp[w].data_length = 2
        /\ Utf8Len(Sent(w, "textData")) = 3

\* C7: GET /health is always answered 200 with status "healthy" and service
\* "secure-backend-aks", with no Authorization header, a wrong token or the
\* correct one, and no authentication stage runs for it.
C7_HealthAlwaysHealthy ==
    \A w \in DOMAIN pc :
        req[w].path = "health"
            => /\ pc[w] \in {"handler", "send", "done"}
               /\ pc[w] \in {"send", "done"}
                    => /\ resp[w].status = 200
                       /\ resp[w].hstatus = "healthy"
                       /\ resp[w].service = "secure-backend-aks"

C7_Witness ==
    \E w \in DOMAIN pc :
        /\ Delivered(w)
        /\ req[w].path = "health"
        /\ req[w].auth = HdrWrong
        /\ resp[w].status = 200

\* C8: requests are independent: the status and every non-timestamp field of a
\* response are determined by its request alone, whatever was served before it
\* and whatever is in flight beside it; a failed authentication does not alter a
\* later request with the correct token, and a successful one authorises no
\* later request without it.
C8_ResponseDeterminedByRequest ==
    /\ \A e1 \in served : \A e2 \in served : e1.req = e2.req => e1.resp = e2.resp
    /\ \A w \in DOMAIN pc : \A e \in served :
          (Delivered(w) /\ e.req = req[w]) => e.resp = NoTimestamps(resp[w])
    /\ \A w1 \in DOMAIN pc : \A w2 \in DOMAIN pc :
          (Delivered(w1) /\ Delivered(w2) /\ req[w1] = req[w2])
              => NoTimestamps(resp[w1]) = NoTimestamps(resp[w2])

C8_Witness ==
    \E w \in DOMAIN pc : \E e1 \in served : \E e2 \in served :
        /\ Delivered(w)
        /\ req[w].path = "process"
        /\ req[w].auth = HdrWrong
        /\ resp[w].status = 401
        /\ e1.req = req[w]
        /\ e2.req.auth = HdrGood
        /\ e2.resp.status = 200
        /\ \E v \in DOMAIN pc : v # w /\ pc[v] \in {"verify", "validate", "handler"}

\* origins of the form https://<subdomain>.azurewebsites.net among those sent
AzureSubdomainOrigins == {"https://frontend-webapp-container.azurewebsites.net",
                          "https://foo.azurewebsites.net"}

\* C9: a request whose Origin is the exact allowed origin or any other
\* https://<subdomain>.azurewebsites.net is answered with
\* Access-Control-Allow-Origin for that origin and
\* Access-Control-Allow-Credentials: true; a request from an origin outside the
\* list gets no Access-Control-Allow-Origin.
C9_AsStated ==
    \A w \in DOMAIN pc :
        Delivered(w)
            => /\ req[w].origin \in AzureSubdomainOrigins
                    => (resp[w].acao = req[w].origin /\ resp[w].acac)
               /\ req[w].origin = "https://evil.example.com" => resp[w].acao = ""

\* C10, as stated: a wrong token with a body missing a field is answered 401,
\* never 422, and 422 is only ever returned to a request carrying the correct
\* token.
C10_AsStated ==
    \A w \in DOMAIN pc :
        DeliveredProcess(w)
            => /\ (req[w].auth \in WrongTokenHeaders /\ req[w].body \in LackingBodies)
                    => InvalidToken(resp[w])
               /\ resp[w].status = 422 => req[w].auth \in GoodHeaders

\* C10, amended: on POST /process authentication is decided before the fields
\* of the body are validated: a request with a wrong bearer token and a body
\* missing a required field is answered 401 "Invalid token", never 422; a 422
\* goes to a request without the correct token only when its body is not
\* decodable JSON, which the framework reports before it solves the
\* dependencies.
C10_AuthBeforeFieldValidation ==
    \A w \in DOMAIN pc :
        /\ DeliveredProcess(w)
              => /\ (req[w].auth \in WrongTokenHeaders /\ req[w].body \in LackingBodies)
                      => InvalidToken(resp[w])
                 /\ (resp[w].status = 422 /\ req[w].auth \notin GoodHeaders)
                      => req[w].body.kind = "malformed"
        /\ (req[w].path = "process" /\ pc[w] = "validate") => auth[w] = AuthContext

C10_Witness ==
    \E w \in DOMAIN pc :
        /\ DeliveredProcess(w)
        /\ req[w].auth = HdrWrong
        /\ req[w].body = Obj(Absent, Absent, Absent)
        /\ InvalidToken(resp[w])

====
